---- MODULE Spec2Model ----
(***************************************************************************)
(* Playback controller (MidiPlayer) and play-along reconciler (PlayAlong)  *)
(* of neothesia/src/scene/playing_scene/midi_player.rs.                    *)
(*                                                                         *)
(* Two clocks are kept apart, as in the source: `now` is the wall clock    *)
(* read by Instant::now() (milliseconds), playback.time is the simulated   *)
(* song position (ticks of the song).                                      *)
(***************************************************************************)
EXTENDS Integers, Sequences, FiniteSets

VARIABLES
    play_along,  \* PlayAlong: user_keyboard_range, required_notes, user_pressed_recently
    playback,    \* midi_file::PlaybackState: time, is_paused
    now,         \* the wall clock, what Instant::now() returns
    out,         \* what the last operation did outside: sent, reported, returned
    lastOp,      \* history: the operation that led to this state, with its inputs
    pre,         \* history: play_along and playback as they were before lastOp
    early,       \* history: per note, when the latest unclaimed early press was made
    reqAt,       \* history: per note, since when the note is required
    hostPaused,  \* history: the host called pause() and has not called resume() since
    life,        \* "alive" from MidiPlayer::new until the MidiPlayer is dropped
    lastNoteOn,  \* history: per note, what the latest in-range NoteOn for it did
    piano_range, \* Config.piano_range: <<start, end>>, what the settings menu edits
    lastSettings \* history: the last settings message, the range before it, overflow

vars == <<play_along, playback, now, out, lastOp, pre, early, reqAt, hostPaused,
          life, lastNoteOn,
         piano_range, lastSettings>>

----------------------------------------------------------------------------
(* Bounds of the model *)

\* note identifiers are 0..MaxNote
MaxNote == 2
\* the performer's keyboard covers KbStart..KbEnd
KbStart == 1
KbEnd == 2
\* the wall clock advances by TickA or TickB milliseconds, up to MaxNow
TickA == 250
TickB == 251
MaxNow == 752
\* update(delta) is called with delta in 0..MaxDelta song ticks
MaxDelta == 2
\* the song position is capped at SongLength
SongLength == 5
\* the channels of the output are 0..MaxChannel
MaxChannel == 2
\* rewind(delta): the signed 64-bit delta is modelled with IntBits bits
IntBits == 3

(* Program constants *)

\* Duration::from_millis(500), the leeway window
Threshold == 500

Notes == 0..MaxNote
\* i64::MIN and i64::MAX at IntBits bits
MinInt == 0 - 2 ^ (IntBits - 1)
MaxInt == 2 ^ (IntBits - 1) - 1
\* Duration::MAX, beyond every u64 of milliseconds
DurationMax == 2 ^ IntBits + SongLength
\* the percentages of set_percentage_time, in hundredths
Percentages == {0 - 50, 0, 40, 100}
Ticks == {TickA, TickB}
\* no time: the value of early and reqAt when there is none
NoTime == 0 - 1

----------------------------------------------------------------------------
(* Sequences helpers *)

\* .iter().find(|item| item.note_id == note_id): the least index of upr whose
\* entry is for note_id, 0 when there is none
FirstIndex(upr, note_id) ==
    IF \E i \in 1..Len(upr) : upr[i].note_id = note_id
    THEN CHOOSE i \in 1..Len(upr) :
            /\ upr[i].note_id = note_id
            /\ \A j \in 1..(i - 1) : upr[j].note_id # note_id
    ELSE 0

\* VecDeque::remove(id): s without its element at index i
RemoveAt(s, i) == [k \in 1..(Len(s) - 1) |-> IF k < i THEN s[k] ELSE s[k + 1]]

----------------------------------------------------------------------------
(* piano_math::KeyboardRange *)

contains(range, note_id) == range.start <= note_id /\ note_id <= range.end

----------------------------------------------------------------------------
(* PlayAlong *)

\* PlayAlong::new
PlayAlong_new(user_keyboard_range) ==
    [user_keyboard_range |-> user_keyboard_range,
     required_notes |-> {},
     user_pressed_recently |-> <<>>]

\* mutant of PlayAlong_update: a press exactly as old as the window expires
PlayAlong_update_Strict(pa, t) ==
    LET within(item) == t - item.timestamp < Threshold
    IN [pa EXCEPT !.user_pressed_recently = SelectSeq(@, within)]

\* mutant of PlayAlong_update: the sweep drops the requirements as well
PlayAlong_update_DropsRequired(pa, t) ==
    LET within(item) == t - item.timestamp <= Threshold
    IN [pa EXCEPT !.user_pressed_recently = SelectSeq(@, within),
                  !.required_notes = {}]

\* PlayAlong::update at wall-clock time t: the expiry sweep
PlayAlong_update(pa, t) ==
    LET within(item) == t - item.timestamp <= Threshold
    IN [pa EXCEPT !.user_pressed_recently = SelectSeq(@, within)]

\* mutant of user_press_key: the pending entry is not purged when the press
\* meets a requirement
user_press_key_NoPurge(pa, note_id, active, t) ==
    IF ~active THEN pa
    ELSE
    LET upr == pa.user_pressed_recently
        found == FirstIndex(upr, note_id)
        upserted == IF found # 0
                    THEN [upr EXCEPT ![found].timestamp = t]
                    ELSE Append(upr, [timestamp |-> t, note_id |-> note_id])
    IN [pa EXCEPT !.user_pressed_recently = upserted,
                  !.required_notes = @ \ {note_id}]

\* mutant of user_press_key: a release is recorded like a press
user_press_key_TracksRelease(pa, note_id, active, t) ==
    LET upr == pa.user_pressed_recently
        other(item) == item.note_id # note_id
        found == FirstIndex(upr, note_id)
        upserted == IF found # 0
                    THEN [upr EXCEPT ![found].timestamp = t]
                    ELSE Append(upr, [timestamp |-> t, note_id |-> note_id])
        purged == IF note_id \in pa.required_notes
                  THEN SelectSeq(upserted, other)
                  ELSE upserted
    IN [pa EXCEPT !.user_pressed_recently = purged,
                  !.required_notes = @ \ {note_id}]

\* mutant of user_press_key: every press pushes a new entry
user_press_key_AlwaysPush(pa, note_id, active, t) ==
    IF ~active THEN pa
    ELSE
    LET other(item) == item.note_id # note_id
        pushed == Append(pa.user_pressed_recently,
                         [timestamp |-> t, note_id |-> note_id])
        purged == IF note_id \in pa.required_notes
                  THEN SelectSeq(pushed, other)
                  ELSE pushed
    IN [pa EXCEPT !.user_pressed_recently = purged,
                  !.required_notes = @ \ {note_id}]

\* PlayAlong::user_press_key at wall-clock time t
user_press_key(pa, note_id, active, t) ==
    IF ~active THEN pa
    ELSE
    LET upr == pa.user_pressed_recently
        other(item) == item.note_id # note_id
        found == FirstIndex(upr, note_id)
        upserted == IF found # 0
                    THEN [upr EXCEPT ![found].timestamp = t]
                    ELSE Append(upr, [timestamp |-> t, note_id |-> note_id])
        purged == IF note_id \in pa.required_notes
                  THEN SelectSeq(upserted, other)
                  ELSE upserted
    IN [pa EXCEPT !.user_pressed_recently = purged,
                  !.required_notes = @ \ {note_id}]

\* mutant of file_press_key: a NoteOn always creates a requirement and never
\* looks at the pending presses
file_press_key_NoLeeway(pa, note_id, active) ==
    IF active
    THEN [pa EXCEPT !.required_notes = @ \union {note_id}]
    ELSE [pa EXCEPT !.required_notes = @ \ {note_id}]

\* mutant of file_press_key: a NoteOn consumes the pending press and creates
\* the requirement all the same
file_press_key_ConsumeAndRequire(pa, note_id, active) ==
    IF active
    THEN LET id == FirstIndex(pa.user_pressed_recently, note_id)
         IN IF id # 0
            THEN [pa EXCEPT !.user_pressed_recently = RemoveAt(@, id),
                            !.required_notes = @ \union {note_id}]
            ELSE [pa EXCEPT !.required_notes = @ \union {note_id}]
    ELSE [pa EXCEPT !.required_notes = @ \ {note_id}]

\* mutant of file_press_key: a NoteOff is ignored
file_press_key_IgnoreOff(pa, note_id, active) ==
    IF active
    THEN LET id == FirstIndex(pa.user_pressed_recently, note_id)
         IN IF id # 0
            THEN [pa EXCEPT !.user_pressed_recently = RemoveAt(@, id)]
            ELSE [pa EXCEPT !.required_notes = @ \union {note_id}]
    ELSE pa

\* mutant of file_press_key: the press that satisfies a NoteOn is left pending
file_press_key_KeepsPress(pa, note_id, active) ==
    IF active
    THEN LET id == FirstIndex(pa.user_pressed_recently, note_id)
         IN IF id # 0
            THEN pa
            ELSE [pa EXCEPT !.required_notes = @ \union {note_id}]
    ELSE [pa EXCEPT !.required_notes = @ \ {note_id}]

\* PlayAlong::file_press_key
file_press_key(pa, note_id, active) ==
    IF active
    THEN LET id == FirstIndex(pa.user_pressed_recently, note_id)
         IN IF id # 0
            THEN [pa EXCEPT !.user_pressed_recently = RemoveAt(@, id)]
            ELSE [pa EXCEPT !.required_notes = @ \union {note_id}]
    ELSE [pa EXCEPT !.required_notes = @ \ {note_id}]

\* mutant of press_key: the keyboard range is not consulted
press_key_NoRangeCheck(pa, src, note_id, active, t) ==
    IF src = "User" THEN user_press_key(pa, note_id, active, t)
    ELSE file_press_key(pa, note_id, active)

\* PlayAlong::press_key
press_key(pa, src, note_id, active, t) ==
    IF ~contains(pa.user_keyboard_range, note_id) THEN pa
    ELSE IF src = "User" THEN user_press_key(pa, note_id, active, t)
    ELSE file_press_key(pa, note_id, active)

\* PlayAlong::midi_event
midi_event(pa, source, message, t) ==
    IF message.type = "NoteOn" THEN press_key(pa, source, message.key, TRUE, t)
    ELSE IF message.type = "NoteOff" THEN press_key(pa, source, message.key, FALSE, t)
    ELSE pa

\* mutant of PlayAlong_clear: the pending presses are dropped as well
PlayAlong_clear_Both(pa) ==
    [pa EXCEPT !.required_notes = {}, !.user_pressed_recently = <<>>]

\* PlayAlong::clear
PlayAlong_clear(pa) == [pa EXCEPT !.required_notes = {}]

\* PlayAlong::are_required_keys_pressed
are_required_keys_pressed(pa) == pa.required_notes = {}

----------------------------------------------------------------------------
(* MIDI messages and the song *)

NoteOn(key) == [type |-> "NoteOn", key |-> key]
NoteOff(key) == [type |-> "NoteOff", key |-> key]
ProgramChange(program) == [type |-> "ProgramChange", program |-> program]
NoMessage == [type |-> "None"]

\* Song.config.tracks[track_id].player, track_id counted from 0
TrackPlayer == <<"Human", "Auto", "Mute">>

MidiEvent(timestamp, track_id, channel, message) ==
    [timestamp |-> timestamp, track_id |-> track_id,
     channel |-> channel, message |-> message]

\* Song.file: the events of the song in source order
SongEvents ==
    << MidiEvent(1, 0, 0, NoteOn(KbStart)),
       MidiEvent(1, 1, 1, ProgramChange(5)),
       MidiEvent(2, 2, 2, NoteOn(KbEnd)),
       MidiEvent(2, 0, 0, NoteOn(0)),
       MidiEvent(3, 0, 0, NoteOff(KbStart)),
       MidiEvent(3, 1, 1, NoteOn(KbEnd)),
       MidiEvent(4, 2, 2, ProgramChange(7)),
       MidiEvent(4, 0, 0, NoteOn(KbEnd)) >>

Channels == 0..MaxChannel

\* ProgramTrack::program_for_timestamp: per channel, the program of the last
\* ProgramChange at or before time, 0 when there is none
program_for_timestamp(time) ==
    [c \in Channels |->
        LET changes == {i \in 1..Len(SongEvents) :
                            /\ SongEvents[i].channel = c
                            /\ SongEvents[i].message.type = "ProgramChange"
                            /\ SongEvents[i].timestamp <= time}
        IN IF changes = {} THEN 0
           ELSE LET last == CHOOSE i \in changes : \A j \in changes : j <= i
                IN SongEvents[last].message.program]

----------------------------------------------------------------------------
(* midi_file::PlaybackState, the time-indexed event source *)

PlaybackState_new == [time |-> 0, is_paused |-> FALSE]

\* PlaybackState::update: advance and slice; nothing while paused
PlaybackState_update(pb, delta) ==
    IF pb.is_paused
    THEN [playback |-> pb, events |-> <<>>]
    ELSE LET crossed(e) == pb.time <= e.timestamp /\ e.timestamp < pb.time + delta
         IN [playback |-> [pb EXCEPT !.time = @ + delta],
             events |-> SelectSeq(SongEvents, crossed)]

PlaybackState_pause(pb) == [pb EXCEPT !.is_paused = TRUE]
PlaybackState_resume(pb) == [pb EXCEPT !.is_paused = FALSE]

\* PlaybackState::set_time: an absolute seek
PlaybackState_set_time(pb, time) == [pb EXCEPT !.time = time]

\* PlaybackState::length
PlaybackState_length == SongLength

\* what the source may return to the update(Duration::ZERO) that follows a seek
\* to time: nothing, or the events up to time
JumpBatches(time) ==
    LET passed(e) == e.timestamp <= time
    IN {<<>>, SelectSeq(SongEvents, passed)}

----------------------------------------------------------------------------
(* OutputConnection, the output sink: the calls made on it *)

SinkMidiEvent(channel, message) ==
    [call |-> "midi_event", channel |-> channel, message |-> message]
SinkStopAll == [call |-> "stop_all"]

\* what an operation did outside: the calls on the sink, the file messages
\* reported to the reconciler, the events returned to the caller, the events
\* pulled from the source and dropped, and whether it panicked
NoOut == [sent |-> <<>>, reported |-> <<>>, returned |-> <<>>,
          dropped |-> <<>>, panicked |-> FALSE, overflowed |-> FALSE]

----------------------------------------------------------------------------
(* MidiPlayer *)

\* mutant of Dispatch: the events of a muted track are sent to the sink
RECURSIVE Dispatch_MuteSounds(_, _, _, _)
Dispatch_MuteSounds(events, i, acc, t) ==
    IF i > Len(events) THEN acc
    ELSE
    LET event == events[i]
        player == TrackPlayer[event.track_id + 1]
        sink == SinkMidiEvent(event.channel, event.message)
        next ==
            IF player = "Human"
            THEN [acc EXCEPT !.sent = Append(@, sink),
                             !.reported = Append(@, event.message),
                             !.play_along = midi_event(@, "File", event.message, t)]
            ELSE [acc EXCEPT !.sent = Append(@, sink)]
    IN Dispatch_MuteSounds(events, i + 1, next, t)

\* the body of events.iter().for_each(..) in MidiPlayer::update, from event i on:
\* acc holds play_along and the calls made so far
RECURSIVE Dispatch(_, _, _, _)
Dispatch(events, i, acc, t) ==
    IF i > Len(events) THEN acc
    ELSE
    LET event == events[i]
        player == TrackPlayer[event.track_id + 1]
        sink == SinkMidiEvent(event.channel, event.message)
        next ==
            IF player = "Auto"
            THEN [acc EXCEPT !.sent = Append(@, sink)]
            ELSE IF player = "Human"
            THEN [acc EXCEPT !.sent = Append(@, sink),
                             !.reported = Append(@, event.message),
                             !.play_along = midi_event(@, "File", event.message, t)]
            ELSE acc
    IN Dispatch(events, i + 1, next, t)

\* mutant of MidiPlayer_update: the expiry sweep is left out
MidiPlayer_update_NoSweep(pa, pb, delta, t) ==
    LET pulled == PlaybackState_update(pb, delta)
        done == Dispatch(pulled.events, 1,
                         [play_along |-> pa, sent |-> <<>>, reported |-> <<>>], t)
    IN [play_along |-> done.play_along,
        playback |-> pulled.playback,
        out |-> [NoOut EXCEPT !.sent = done.sent, !.reported = done.reported,
                              !.returned = pulled.events]]

\* MidiPlayer::update at wall-clock time t
MidiPlayer_update(pa, pb, delta, t) ==
    LET swept == PlayAlong_update(pa, t)
        pulled == PlaybackState_update(pb, delta)
        done == Dispatch(pulled.events, 1,
                         [play_along |-> swept, sent |-> <<>>, reported |-> <<>>], t)
    IN [play_along |-> done.play_along,
        playback |-> pulled.playback,
        out |-> [NoOut EXCEPT !.sent = done.sent, !.reported = done.reported,
                              !.returned = pulled.events]]

\* MidiPlayer::clear
MidiPlayer_clear == <<SinkStopAll>>

\* MidiPlayer::send_midi_programs_for_timestamp
send_midi_programs_for_timestamp(time) ==
    LET programs == program_for_timestamp(time)
    IN [i \in 1..(MaxChannel + 1) |->
            SinkMidiEvent(i - 1, ProgramChange(programs[i - 1]))]

\* MidiPlayer::new at wall-clock time t
MidiPlayer_new(user_keyboard_range, t) ==
    LET pb == PlaybackState_new
        first == MidiPlayer_update(PlayAlong_new(user_keyboard_range), pb, 0, t)
    IN [first EXCEPT !.out.sent = send_midi_programs_for_timestamp(pb.time) \o @]

\* mutant of MidiPlayer_pause: the notes are stopped but the source keeps playing
MidiPlayer_pause_KeepsPlaying(pa, pb) ==
    [play_along |-> pa,
     playback |-> pb,
     out |-> [NoOut EXCEPT !.sent = MidiPlayer_clear]]

\* MidiPlayer::pause
MidiPlayer_pause(pa, pb) ==
    [play_along |-> pa,
     playback |-> PlaybackState_pause(pb),
     out |-> [NoOut EXCEPT !.sent = MidiPlayer_clear]]

\* mutant of MidiPlayer_resume: the outstanding requirements are kept
MidiPlayer_resume_KeepsRequired(pa, pb) ==
    [play_along |-> pa,
     playback |-> PlaybackState_resume(pb),
     out |-> NoOut]

\* MidiPlayer::resume
MidiPlayer_resume(pa, pb) ==
    [play_along |-> PlayAlong_clear(pa),
     playback |-> PlaybackState_resume(pb),
     out |-> NoOut]

\* MidiPlayer::pause_resume
MidiPlayer_pause_resume(pa, pb) ==
    IF pb.is_paused THEN MidiPlayer_resume(pa, pb) ELSE MidiPlayer_pause(pa, pb)

\* mutant of MidiPlayer_drop: nothing is sent on teardown
MidiPlayer_drop_Silent(pa, pb) ==
    [play_along |-> pa, playback |-> pb, out |-> NoOut]

\* Drop for MidiPlayer
MidiPlayer_drop(pa, pb) ==
    [play_along |-> pa,
     playback |-> pb,
     out |-> [NoOut EXCEPT !.sent = MidiPlayer_clear]]

\* mutant of MidiPlayer_set_time: the events of the jump are played like those
\* of an update
MidiPlayer_set_time_PlaysJump(pa, pb, time, jump) ==
    LET done == Dispatch(jump, 1,
                         [play_along |-> pa, sent |-> <<>>, reported |-> <<>>], 0)
    IN [play_along |-> done.play_along,
        playback |-> PlaybackState_set_time(pb, time),
        out |-> [NoOut EXCEPT
                   !.reported = done.reported,
                   !.sent = done.sent \o MidiPlayer_clear
                            \o send_midi_programs_for_timestamp(time)]]

\* mutant of MidiPlayer_set_time: a seek clears the requirements, as resume does
MidiPlayer_set_time_ClearsRequired(pa, pb, time, jump) ==
    [play_along |-> PlayAlong_clear(pa),
     playback |-> PlaybackState_set_time(pb, time),
     out |-> [NoOut EXCEPT
                !.dropped = jump,
                !.sent = MidiPlayer_clear \o send_midi_programs_for_timestamp(time)]]

\* MidiPlayer::set_time; jump is what playback.update(Duration::ZERO) returns
\* after the seek
MidiPlayer_set_time(pa, pb, time, jump) ==
    [play_along |-> pa,
     playback |-> PlaybackState_set_time(pb, time),
     out |-> [NoOut EXCEPT
                !.dropped = jump,
                !.sent = MidiPlayer_clear \o send_midi_programs_for_timestamp(time)]]

\* i64 negation: -delta, which overflows for the most negative delta and then
\* wraps to it
wrapping_neg(delta) == IF delta = MinInt THEN MinInt ELSE 0 - delta

\* `as u64`: the two's complement bits read as unsigned
as_u64(x) == x % (2 ^ IntBits)

\* Duration::saturating_sub and Duration::saturating_add
saturating_sub(a, b) == IF a < b THEN 0 ELSE a - b
saturating_add(a, b) == IF a + b > DurationMax THEN DurationMax ELSE a + b

\* the time MidiPlayer::rewind seeks to
rewind_time(time, delta) ==
    IF delta < 0
    THEN saturating_sub(time, as_u64(wrapping_neg(delta)))
    ELSE saturating_add(time, as_u64(delta))

\* MidiPlayer::rewind; checked: the build checks arithmetic overflow, and -delta
\* panics where it overflows; the panic unwinds and drops the MidiPlayer
MidiPlayer_rewind(pa, pb, delta, jump, checked) ==
    LET overflows == delta < 0 /\ delta = MinInt
    IN IF overflows /\ checked
       THEN [MidiPlayer_drop(pa, pb) EXCEPT !.out.panicked = TRUE,
                                           !.out.overflowed = TRUE]
       ELSE [MidiPlayer_set_time(pa, pb, rewind_time(pb.time, delta), jump)
                EXCEPT !.out.overflowed = overflows]

\* MidiPlayer::percentage_to_time, p in hundredths
percentage_to_time(p) ==
    LET secs == p * PlaybackState_length
    IN (IF secs > 0 THEN secs ELSE 0) \div 100

\* MidiPlayer::set_percentage_time, p in hundredths
MidiPlayer_set_percentage_time(pa, pb, p, jump) ==
    MidiPlayer_set_time(pa, pb, percentage_to_time(p), jump)

----------------------------------------------------------------------------
(* History variables *)

Op(op, source, message, delta) ==
    [op |-> op, source |-> source, message |-> message, delta |-> delta]

InRange(n) == contains(play_along.user_keyboard_range, n)

\* the in-range notes of the file NoteOns among the messages msgs
FileOnNotes(msgs) ==
    {n \in Notes : InRange(n) /\ \E i \in 1..Len(msgs) : msgs[i] = NoteOn(n)}

\* early after a user message: an in-range NoteOn that meets no requirement is
\* an early press made now; one that meets a requirement is claimed by it
EarlyAfterUser(message) ==
    IF message.type = "NoteOn" /\ InRange(message.key)
    THEN [early EXCEPT ![message.key] =
              IF message.key \in play_along.required_notes THEN NoTime ELSE now]
    ELSE early

\* early after file messages: a file NoteOn ends the wait of the presses before it
EarlyAfterFile(msgs) ==
    [n \in Notes |-> IF n \in FileOnNotes(msgs) THEN NoTime ELSE early[n]]

\* reqAt after a step that leaves the notes `required` outstanding
ReqAtAfter(required) ==
    [n \in Notes |-> IF n \notin required THEN NoTime
                     ELSE IF n \in play_along.required_notes THEN reqAt[n]
                     ELSE now]

\* lastNoteOn after a user message: an in-range NoteOn either clears the
\* requirement of its note ("cleared") or is recorded as pending ("pending")
NoteOnAfterUser(message) ==
    IF message.type = "NoteOn" /\ InRange(message.key)
    THEN [lastNoteOn EXCEPT ![message.key] =
              IF message.key \in play_along.required_notes
              THEN "cleared" ELSE "pending"]
    ELSE lastNoteOn

\* lastNoteOn after the file messages msgs, from message i on, pa being the
\* reconciler as message i finds it: an in-range NoteOn either consumes the
\* pending press of its note ("consumed") or requires the note ("required")
RECURSIVE NoteOnAfterFile(_, _, _, _)
NoteOnAfterFile(msgs, i, pa, last) ==
    IF i > Len(msgs) THEN last
    ELSE
    LET m == msgs[i]
        last2 == IF m.type = "NoteOn" /\ InRange(m.key)
                 THEN [last EXCEPT ![m.key] =
                          IF FirstIndex(pa.user_pressed_recently, m.key) # 0
                          THEN "consumed" ELSE "required"]
                 ELSE last
    IN NoteOnAfterFile(msgs, i + 1, midi_event(pa, "File", m, now), last2)

Snapshot ==
    [play_along |-> play_along, playback |-> playback,
     early |-> early, reqAt |-> reqAt, now |-> now, hostPaused |-> hostPaused,
     lastNoteOn |-> lastNoteOn]

\* a step of the reconciler alone
StepPlayAlong(op, pa, reported, early2) ==
    /\ lastNoteOn' = IF op.source = "User" THEN NoteOnAfterUser(op.message)
                     ELSE NoteOnAfterFile(reported, 1, play_along, lastNoteOn)
    /\ play_along' = pa
    /\ out' = [NoOut EXCEPT !.reported = reported]
    /\ lastOp' = op
    /\ pre' = Snapshot
    /\ UNCHANGED <<piano_range, lastSettings>>
    /\ early' = early2
    /\ reqAt' = ReqAtAfter(pa.required_notes)
    /\ UNCHANGED <<playback, now, hostPaused, life>>

\* a step of the controller; hp: whether the host has the controller paused after it
StepPlayer(op, res, hp) ==
    /\ life = "alive"
    /\ life' = IF op.op = "drop" \/ res.out.panicked THEN "dropped" ELSE "alive"
    /\ lastNoteOn' = NoteOnAfterFile(res.out.reported, 1,
                                     PlayAlong_update(play_along, now), lastNoteOn)
    /\ play_along' = res.play_along
    /\ playback' = res.playback
    /\ out' = res.out
    /\ lastOp' = op
    /\ pre' = Snapshot
    /\ UNCHANGED <<piano_range, lastSettings>>
    /\ early' = EarlyAfterFile(res.out.reported)
    /\ reqAt' = ReqAtAfter(res.play_along.required_notes)
    /\ hostPaused' = hp
    /\ UNCHANGED now

----------------------------------------------------------------------------
(* The note range of the settings menu: iced_menu::settings::update *)

\* the highest note a range bound may take
RangeMax == 127
\* end must exceed start by more than this
MinGap == 24
\* the width of u8, the type of the range bounds
U8Bits == 8
U8Max == 2 ^ U8Bits - 1

\* u8 + u8: the sum as the unchecked build computes it
u8_add(a, b) == (a + b) % (2 ^ U8Bits)
\* whether u8 + u8 leaves the type
u8_add_overflows(a, b) == a + b > U8Max
\* u8::saturating_sub
u8_saturating_sub(a, b) == IF a < b THEN 0 ELSE a - b
\* Ord::min
min(a, b) == IF a < b THEN a ELSE b

\* RangeUpdateKind and the SettingsMessage variants that carry it
RangeUpdateKind == {"Add", "Sub"}
RangeStartMessage(kind) == [variant |-> "RangeStart", kind |-> kind]
RangeEndMessage(kind) == [variant |-> "RangeEnd", kind |-> kind]
NoSettingsMessage == [variant |-> "None", kind |-> "None"]

\* no message handled yet
NoSettings ==
    [message |-> NoSettingsMessage, pre |-> <<0, RangeMax>>, overflowed |-> FALSE]

\* settings::update with RangeStart(Add) applied without the comparison with end
settings_update_NoGapCheck(range, message) ==
    LET start == range[1]
        end == range[2]
    IN
    IF message.variant = "RangeStart" /\ message.kind = "Add"
    THEN [range |-> <<min(u8_add(start, 1), RangeMax), end>>,
          overflowed |-> u8_add_overflows(start, 1)]
    ELSE IF message.variant = "RangeStart"
    THEN [range |-> <<u8_saturating_sub(start, 1), end>>, overflowed |-> FALSE]
    ELSE IF message.kind = "Add"
    THEN [range |-> <<start, min(u8_add(end, 1), RangeMax)>>,
          overflowed |-> u8_add_overflows(end, 1)]
    ELSE LET v == u8_saturating_sub(end, 1)
         IN [range |-> IF u8_add(start, MinGap) < v THEN <<start, v>> ELSE range,
             overflowed |-> u8_add_overflows(start, MinGap)]

\* settings::update, the arms RangeStart(kind) and RangeEnd(kind): the range
\* after the message, and whether a u8 addition overflowed on the way
settings_update(range, message) ==
    LET start == range[1]
        end == range[2]
    IN
    IF message.variant = "RangeStart" /\ message.kind = "Add"
    THEN LET v == min(u8_add(start, 1), RangeMax)
         IN [range |-> IF u8_add(v, MinGap) < end THEN <<v, end>> ELSE range,
             overflowed |-> u8_add_overflows(start, 1)
                            \/ u8_add_overflows(v, MinGap)]
    ELSE IF message.variant = "RangeStart"
    THEN [range |-> <<u8_saturating_sub(start, 1), end>>, overflowed |-> FALSE]
    ELSE IF message.kind = "Add"
    THEN [range |-> <<start, min(u8_add(end, 1), RangeMax)>>,
          overflowed |-> u8_add_overflows(end, 1)]
    ELSE LET v == u8_saturating_sub(end, 1)
         IN [range |-> IF u8_add(start, MinGap) < v THEN <<start, v>> ELSE range,
             overflowed |-> u8_add_overflows(start, MinGap)]

\* a range within the notes of the keyboard, wide enough
ValidRange(range) ==
    /\ 0 <= range[1] /\ range[1] <= RangeMax
    /\ 0 <= range[2] /\ range[2] <= RangeMax
    /\ range[1] + MinGap < range[2]

ValidRanges == {r \in (0..RangeMax) \X (0..RangeMax) : ValidRange(r)}

----------------------------------------------------------------------------
(* The state after MidiPlayer::new *)

InitPlayer ==
    LET new == MidiPlayer_new([start |-> KbStart, end |-> KbEnd], 0)
    IN
    /\ play_along = new.play_along
    /\ playback = new.playback
    /\ now = 0
    /\ out = new.out
    /\ lastOp = Op("new", "None", NoMessage, 0)
    /\ early = [n \in Notes |-> NoTime]
    /\ reqAt = [n \in Notes |-> NoTime]
    /\ hostPaused = FALSE
    /\ life = "alive"
    /\ lastNoteOn = [n \in Notes |-> "none"]
    /\ pre = [play_along |-> play_along, playback |-> playback,
              early |-> early, reqAt |-> reqAt, now |-> now,
              hostPaused |-> hostPaused, lastNoteOn |-> lastNoteOn]

\* the player as constructed; the settings menu has the whole keyboard
Init ==
    /\ InitPlayer
    /\ piano_range = <<0, RangeMax>>
    /\ lastSettings = NoSettings

\* the settings menu opened on any valid range
InitSettings ==
    /\ InitPlayer
    /\ piano_range \in ValidRanges
    /\ lastSettings = [NoSettings EXCEPT !.pre = piano_range]

Messages == {NoteOn(n) : n \in Notes} \union {NoteOff(n) : n \in Notes}
            \union {ProgramChange(0)}

----------------------------------------------------------------------------
(* Actions *)

\* wall-clock time passes, up to max
AdvanceUpTo(max) ==
    \E d \in Ticks :
        /\ now + d <= max
        /\ now' = now + d
        /\ lastOp' = Op("advance", "None", NoMessage, d)
        /\ pre' = Snapshot
        /\ out' = NoOut
        /\ UNCHANGED <<play_along, playback, early, reqAt, hostPaused, life,
                       lastNoteOn, piano_range, lastSettings>>

Advance == AdvanceUpTo(MaxNow)

\* wall-clock time passes, one tick of TickA at most
AdvanceOnce == AdvanceUpTo(TickA)

\* play_along_mut().midi_event(MidiEventSource::User, message)
UserEvent ==
    \E message \in Messages :
        /\ life = "alive"
        /\ StepPlayAlong(Op("midi_event", "User", message, 0),
                         midi_event(play_along, "User", message, now),
                         <<>>, EarlyAfterUser(message))

\* PlayAlong::midi_event(MidiEventSource::File, message)
FileEvent ==
    \E message \in Messages :
        StepPlayAlong(Op("midi_event", "File", message, 0),
                      midi_event(play_along, "File", message, now),
                      <<message>>, EarlyAfterFile(<<message>>))

\* PlayAlong::update
Sweep ==
    StepPlayAlong(Op("PlayAlong_update", "None", NoMessage, 0),
                  PlayAlong_update(play_along, now), <<>>, early)

\* PlayAlong::clear
Clear ==
    StepPlayAlong(Op("PlayAlong_clear", "None", NoMessage, 0),
                  PlayAlong_clear(play_along), <<>>, early)

\* MidiPlayer::update(delta)
Update ==
    \E delta \in 0..MaxDelta :
        /\ playback.is_paused \/ playback.time + delta <= SongLength
        /\ StepPlayer(Op("update", "None", NoMessage, delta),
                      MidiPlayer_update(play_along, playback, delta, now),
                      hostPaused)

\* MidiPlayer::pause
Pause ==
    StepPlayer(Op("pause", "None", NoMessage, 0),
               MidiPlayer_pause(play_along, playback), TRUE)

\* MidiPlayer::resume
Resume ==
    StepPlayer(Op("resume", "None", NoMessage, 0),
               MidiPlayer_resume(play_along, playback), FALSE)

\* MidiPlayer::pause_resume
PauseResume ==
    StepPlayer(Op("pause_resume", "None", NoMessage, 0),
               MidiPlayer_pause_resume(play_along, playback), ~hostPaused)

\* the builds that differ on rewind(delta): with and without overflow checks
Builds(delta) == IF delta = MinInt THEN BOOLEAN ELSE {FALSE}

\* MidiPlayer::set_time(time)
SetTime ==
    \E time \in 0..SongLength : \E jump \in JumpBatches(time) :
        StepPlayer(Op("set_time", "None", NoMessage, time),
                   MidiPlayer_set_time(play_along, playback, time, jump),
                   hostPaused)

\* MidiPlayer::rewind(delta)
Rewind ==
    \E delta \in MinInt..MaxInt : \E checked \in Builds(delta) :
        LET time == rewind_time(playback.time, delta) IN
        \E jump \in JumpBatches(time) :
            /\ time <= SongLength
            /\ StepPlayer(Op("rewind", "None", NoMessage, delta),
                          MidiPlayer_rewind(play_along, playback, delta, jump, checked),
                          hostPaused)

\* MidiPlayer::set_percentage_time(p)
SetPercentageTime ==
    \E p \in Percentages : \E jump \in JumpBatches(percentage_to_time(p)) :
        StepPlayer(Op("set_percentage_time", "None", NoMessage, p),
                   MidiPlayer_set_percentage_time(play_along, playback, p, jump),
                   hostPaused)

\* the MidiPlayer goes out of scope
Drop ==
    StepPlayer(Op("drop", "None", NoMessage, 0),
               MidiPlayer_drop(play_along, playback), hostPaused)

\* the reconciler under every interleaving of its operations
NextPlayAlong == Advance \/ UserEvent \/ FileEvent \/ Sweep \/ Clear

SpecPlayAlong == Init /\ [][NextPlayAlong]_vars

\* the controller, driven by the host loop, with live input fed to the reconciler
Next == Advance \/ UserEvent \/ Update \/ Pause \/ Resume \/ PauseResume

Spec == Init /\ [][Next]_vars

\* the controller with seeking and teardown
NextSeek ==
    \/ AdvanceOnce \/ UserEvent \/ Update \/ Pause \/ Resume
    \/ SetTime \/ Rewind \/ SetPercentageTime \/ Drop

SpecSeek == Init /\ [][NextSeek]_vars

\* a settings message is handled
StepSettings(message) ==
    LET res == settings_update(piano_range, message)
    IN /\ piano_range' = res.range
       /\ lastSettings' = [message |-> message, pre |-> piano_range,
                           overflowed |-> res.overflowed]
       /\ UNCHANGED <<play_along, playback, now, out, lastOp, pre, early, reqAt,
                      hostPaused, life, lastNoteOn>>

\* SettingsMessage::RangeStart(kind)
RangeStart == \E kind \in RangeUpdateKind : StepSettings(RangeStartMessage(kind))

\* SettingsMessage::RangeEnd(kind)
RangeEnd == \E kind \in RangeUpdateKind : StepSettings(RangeEndMessage(kind))

NextSettings == RangeStart \/ RangeEnd

SpecSettings == InitSettings /\ [][NextSettings]_vars

----------------------------------------------------------------------------
(* Vocabulary of the properties *)

RequiredNotes == play_along.required_notes
PendingUserPresses == play_along.user_pressed_recently

\* the notes that have an entry in the pending presses upr
PendingNotes(upr) == {upr[i].note_id : i \in 1..Len(upr)}

\* the entries of the pending presses upr
Entries(upr) == {upr[i] : i \in 1..Len(upr)}

\* the last step was PlayAlong::midi_event(source, message)
Was(source, message) ==
    lastOp.op = "midi_event" /\ lastOp.source = source /\ lastOp.message = message

\* before the last step, an unclaimed early press of n was at most Threshold old
PressedWithinWindow(n) ==
    pre.early[n] # NoTime /\ pre.now - pre.early[n] <= Threshold

\* upr2 holds elements of upr1 only, in the order they have in upr1
KeepsOrder(upr1, upr2) ==
    \A i, j \in 1..Len(upr2) :
        i < j => \E k, l \in 1..Len(upr1) :
                    k < l /\ upr1[k] = upr2[i] /\ upr1[l] = upr2[j]

----------------------------------------------------------------------------
(* C1: in every reachable state of the reconciler, under any interleaving of
   file note events, user note events, expiry sweeps and clear(), no note is
   both in required_notes and in user_pressed_recently. *)
C1_NeverBoth == RequiredNotes \cap PendingNotes(PendingUserPresses) = {}

\* a file NoteOn has just met a pending press, one side being consumed as the
\* other is touched, while another note is required
C1_Witness ==
    \E n \in Notes :
        /\ Was("File", NoteOn(n))
        /\ n \in PendingNotes(pre.play_along.user_pressed_recently)
        /\ RequiredNotes # {}

(* C2: a file NoteOn for an in-range note n that arrives within 500 ms after
   an unclaimed user NoteOn for n consumes the pending press: n is not
   required after it, the requirements are what they were, and
   are_required_keys_pressed() is not made false. *)
C2_EarlyPressSatisfies ==
    \A n \in Notes :
        (Was("File", NoteOn(n)) /\ InRange(n) /\ PressedWithinWindow(n))
        => /\ n \notin RequiredNotes
           /\ RequiredNotes = pre.play_along.required_notes
           /\ n \notin PendingNotes(PendingUserPresses)
           /\ (are_required_keys_pressed(pre.play_along)
               => are_required_keys_pressed(play_along))

\* the file NoteOn came exactly 500 ms after the press and met it
C2_Witness ==
    \E n \in Notes :
        /\ Was("File", NoteOn(n)) /\ InRange(n)
        /\ pre.early[n] # NoTime
        /\ pre.now - pre.early[n] = Threshold
        /\ n \notin RequiredNotes
        /\ are_required_keys_pressed(play_along)

(* C3: a user NoteOn for a note n that is required removes n from
   RequiredNotes however long ago the file NoteOn fired, and leaves no
   pending entry for n. *)
C3_LatePressSatisfies ==
    \A n \in Notes :
        (Was("User", NoteOn(n)) /\ n \in pre.play_along.required_notes)
        => /\ RequiredNotes = pre.play_along.required_notes \ {n}
           /\ n \notin PendingNotes(PendingUserPresses)

\* the requirement was older than the leeway window when the press came
C3_Witness ==
    \E n \in Notes :
        /\ Was("User", NoteOn(n))
        /\ n \in pre.play_along.required_notes
        /\ pre.now - pre.reqAt[n] > Threshold
        /\ n \notin RequiredNotes

(* C4: the expiry sweep removes every pending entry older than 500 ms and
   keeps every other entry; a user NoteOn for an unrequired in-range note n
   puts n in PendingUserPresses at once, and n is absent after a sweep run
   501 ms or more after the press. *)
C4_SweepExpires ==
    /\ lastOp.op = "PlayAlong_update"
       => /\ Entries(PendingUserPresses) =
                {e \in Entries(pre.play_along.user_pressed_recently) :
                    ~(now - e.timestamp > Threshold)}
          /\ KeepsOrder(pre.play_along.user_pressed_recently, PendingUserPresses)
          /\ RequiredNotes = pre.play_along.required_notes
          /\ \A n \in Notes :
                (early[n] # NoTime /\ now - early[n] >= Threshold + 1)
                => n \notin PendingNotes(PendingUserPresses)
    /\ \A n \in Notes :
          (Was("User", NoteOn(n)) /\ InRange(n)
              /\ n \notin pre.play_along.required_notes)
          => [timestamp |-> now, note_id |-> n] \in Entries(PendingUserPresses)

\* a sweep has just dropped a press made 501 ms before and kept a younger one
C4_Witness ==
    /\ lastOp.op = "PlayAlong_update"
    /\ \E n, m \in Notes :
        /\ early[n] # NoTime /\ now - early[n] = Threshold + 1
        /\ n \in PendingNotes(pre.play_along.user_pressed_recently)
        /\ n \notin PendingNotes(PendingUserPresses)
        /\ m \in PendingNotes(PendingUserPresses)

(* C5, as stated: for every note n in 0..127, a file NoteOn for n that finds
   no pending user press for n adds n to RequiredNotes. *)
C5_AsStated ==
    \A n \in Notes :
        (Was("File", NoteOn(n))
            /\ n \notin PendingNotes(pre.play_along.user_pressed_recently))
        => (n \in RequiredNotes /\ ~are_required_keys_pressed(play_along))

(* C5, amended: for every note n inside the keyboard range, a file NoteOn for
   n that finds no pending user press for n adds n to RequiredNotes, so
   are_required_keys_pressed() becomes false; a file NoteOn for a note
   outside the keyboard range changes nothing. *)
C5_FileNoteOnRequires ==
    \A n \in Notes :
        Was("File", NoteOn(n))
        => IF InRange(n)
           THEN n \notin PendingNotes(pre.play_along.user_pressed_recently)
                => /\ RequiredNotes = pre.play_along.required_notes \union {n}
                   /\ PendingUserPresses = pre.play_along.user_pressed_recently
                   /\ ~are_required_keys_pressed(play_along)
           ELSE play_along = pre.play_along

\* an in-range file NoteOn found another note pending, none for itself, and
\* created the first requirement
C5_Witness ==
    \E n \in Notes :
        /\ Was("File", NoteOn(n))
        /\ InRange(n)
        /\ pre.play_along.required_notes = {}
        /\ pre.play_along.user_pressed_recently # <<>>
        /\ n \in RequiredNotes

(* C6: a file NoteOff for n leaves n absent from RequiredNotes, whether or
   not n was ever pressed, and changes nothing else. *)
C6_FileNoteOffReleases ==
    \A n \in Notes :
        Was("File", NoteOff(n))
        => /\ n \notin RequiredNotes
           /\ RequiredNotes = pre.play_along.required_notes \ {n}
           /\ PendingUserPresses = pre.play_along.user_pressed_recently

\* the NoteOff removed a requirement that no press had met, with a pending
\* press of another note beside it
C6_Witness ==
    \E n \in Notes :
        /\ Was("File", NoteOff(n))
        /\ n \in pre.play_along.required_notes
        /\ n \notin RequiredNotes
        /\ PendingUserPresses # <<>>

(* C7: a user event for a note outside the keyboard range, and any user
   NoteOff, leaves RequiredNotes and PendingUserPresses as they were. *)
C7_UserEventFrame ==
    \A n \in Notes :
        (Was("User", NoteOff(n)) \/ (Was("User", NoteOn(n)) /\ ~InRange(n)))
        => /\ RequiredNotes = pre.play_along.required_notes
           /\ PendingUserPresses = pre.play_along.user_pressed_recently

\* a user NoteOff for a required in-range note has been ignored
C7_Witness ==
    \E n \in Notes :
        /\ Was("User", NoteOff(n))
        /\ InRange(n)
        /\ n \in RequiredNotes
        /\ PendingUserPresses # <<>>

(* C8: between pause() and resume(), every update(delta) returns no events,
   sends nothing to the output sink, reports no file event to the reconciler
   and does not advance the time position. *)
C8_PausedUpdateSilent ==
    (lastOp.op = "update" /\ pre.hostPaused)
    => /\ out.returned = <<>>
       /\ out.sent = <<>>
       /\ out.reported = <<>>
       /\ playback.time = pre.playback.time
       /\ RequiredNotes = pre.play_along.required_notes

\* an update with a positive delta ran while paused, at a position where
\* events of the song lie within delta
C8_Witness ==
    /\ lastOp.op = "update"
    /\ pre.hostPaused
    /\ lastOp.delta > 0
    /\ \E i \in 1..Len(SongEvents) :
          /\ pre.playback.time <= SongEvents[i].timestamp
          /\ SongEvents[i].timestamp < pre.playback.time + lastOp.delta

(* C9: resume() puts the controller in the Playing state and leaves
   RequiredNotes empty; once empty, RequiredNotes stays empty until a file
   NoteOn is reported. *)
C9_ResumeClears ==
    /\ lastOp.op = "resume"
       => (~playback.is_paused /\ are_required_keys_pressed(play_along))
    /\ (are_required_keys_pressed(pre.play_along)
            /\ ~are_required_keys_pressed(play_along))
       => \E i \in 1..Len(out.reported) : out.reported[i].type = "NoteOn"

\* resume() after pause() found requirements outstanding
C9_Witness ==
    /\ lastOp.op = "resume"
    /\ pre.playback.is_paused
    /\ pre.play_along.required_notes # {}
    /\ RequiredNotes = {}

(* C10: PlayAlong::clear empties RequiredNotes and leaves PendingUserPresses
   unchanged, entries and timestamps alike; a press still inside its leeway
   window then still pre-satisfies the next file NoteOn. *)
C10_ClearKeepsPresses ==
    lastOp.op = "PlayAlong_clear"
    => /\ RequiredNotes = {}
       /\ PendingUserPresses = pre.play_along.user_pressed_recently
       /\ \A n \in Notes :
            PressedWithinWindow(n)
            => LET after == midi_event(play_along, "File", NoteOn(n), now)
               IN /\ n \in PendingNotes(PendingUserPresses)
                  /\ n \notin after.required_notes
                  /\ n \notin PendingNotes(after.user_pressed_recently)

\* clear() dropped a requirement while a press inside its window was pending
C10_Witness ==
    /\ lastOp.op = "PlayAlong_clear"
    /\ pre.play_along.required_notes # {}
    /\ \E n \in Notes : PressedWithinWindow(n)

----------------------------------------------------------------------------
(* Vocabulary of the properties of the controller *)

SeekOps == {"set_time", "rewind", "set_percentage_time"}

\* the last step was a seek that ran to its end
Seeked == lastOp.op \in SeekOps /\ ~out.panicked

\* the policy of the track that owns event e
PlayerOf(e) == TrackPlayer[e.track_id + 1]

\* the calls on the sink that forward the events evs unconverted, in their order
Forwarded(evs) ==
    [i \in 1..Len(evs) |-> SinkMidiEvent(evs[i].channel, evs[i].message)]

\* the messages of the events evs, in their order
MessagesOf(evs) == [i \in 1..Len(evs) |-> evs[i].message]

\* the program the sink holds per channel after the calls `sent`, which hold a
\* ProgramChange for every channel: that of the last one
SinkPrograms(sent) ==
    [c \in Channels |->
        LET changes == {i \in 1..Len(sent) :
                            /\ sent[i].call = "midi_event"
                            /\ sent[i].channel = c
                            /\ sent[i].message.type = "ProgramChange"}
            last == CHOOSE i \in changes : \A j \in changes : j <= i
        IN sent[last].message.program]

\* the calls the sink receives in continuous playback from construction, with
\* the events before time played
ContinuousSent(time) ==
    LET new == MidiPlayer_new(play_along.user_keyboard_range, 0)
    IN new.out.sent
       \o MidiPlayer_update(new.play_along, new.playback, time, 0).out.sent

\* the sum of time and delta, kept within 0..DurationMax
SaturatingSum(time, delta) ==
    IF time + delta < 0 THEN 0
    ELSE IF time + delta > DurationMax THEN DurationMax
    ELSE time + delta

----------------------------------------------------------------------------
(* C11: on every seek, nothing the source emits for the jump reaches the
   output sink or the reconciler; an all-notes-off is sent first and after it
   exactly one ProgramChange per channel, carrying the program active at the
   new time. *)
C11_SeekStopsThenReplays ==
    Seeked
    => /\ out.reported = <<>>
       /\ out.returned = <<>>
       /\ play_along = pre.play_along
       /\ Len(out.sent) = 1 + Cardinality(Channels)
       /\ out.sent[1] = SinkStopAll
       /\ \A c \in Channels :
            \E i \in 2..Len(out.sent) :
                out.sent[i] = SinkMidiEvent(c,
                    ProgramChange(program_for_timestamp(playback.time)[c]))

\* set_time jumped over a NoteOn of the human track and over a ProgramChange,
\* and the source emitted them
C11_Witness ==
    /\ lastOp.op = "set_time"
    /\ \E i \in 1..Len(out.dropped) :
          /\ out.dropped[i].message.type = "NoteOn"
          /\ PlayerOf(out.dropped[i]) = "Human"
          /\ InRange(out.dropped[i].message.key)
    /\ \E c \in Channels : program_for_timestamp(playback.time)[c] # 0
    /\ out.sent[1] = SinkStopAll

(* C12, as stated: after set_time(t) the program the sink holds for each
   channel is the last ProgramChange at or before t on that channel, and is
   the one continuous playback from 0 to t would have left, whatever the
   PlayerConfig of the tracks.  Continuous playback is taken either with or
   without the events at t itself. *)
C12_AsStated ==
    lastOp.op = "set_time"
    => LET held == SinkPrograms(out.sent)
       IN /\ held = program_for_timestamp(playback.time)
          /\ \/ held = SinkPrograms(ContinuousSent(playback.time))
             \/ held = SinkPrograms(ContinuousSent(playback.time + 1))

(* C13, as stated: rewind(delta) for every signed delta and every current
   time yields the saturating sum of time and delta, never negative, and
   computing it never relies on signed overflow, the most negative delta
   included. *)
C13_AsStated ==
    lastOp.op = "rewind"
    => /\ ~out.panicked
       /\ ~out.overflowed
       /\ playback.time >= 0
       /\ playback.time = SaturatingSum(pre.playback.time, lastOp.delta)

(* C14: a seek (set_time, rewind, set_percentage_time) is taken in Playing and
   in Paused alike and leaves the paused flag as it was; it leaves the
   reconciler as it was: RequiredNotes, PendingUserPresses and the
   timestamps of the presses. *)
C14_SeekFrame ==
    lastOp.op \in SeekOps
    => /\ playback.is_paused = pre.playback.is_paused
       /\ RequiredNotes = pre.play_along.required_notes
       /\ PendingUserPresses = pre.play_along.user_pressed_recently

\* a seek while paused moved the position, with a requirement outstanding and
\* a press pending that was made after time 0
C14_Witness ==
    /\ Seeked
    /\ playback.is_paused
    /\ playback.time # pre.playback.time
    /\ RequiredNotes # {}
    /\ \E i \in 1..Len(PendingUserPresses) : PendingUserPresses[i].timestamp > 0

(* C15: the teardown of the controller sends all-notes-off to the output sink
   exactly once, and nothing else, from any state and on every path that ends
   its lifetime; nothing is sent after it. *)
C15_DropStopsAllOnce ==
    life = "dropped"
    => IF lastOp.op = "drop" \/ out.panicked
       THEN out.sent = <<SinkStopAll>>
       ELSE out.sent = <<>>

\* the controller was dropped while paused, after the position had moved
C15_Witness ==
    /\ lastOp.op = "drop"
    /\ life = "dropped"
    /\ pre.playback.is_paused
    /\ pre.playback.time > 0
    /\ out.sent = <<SinkStopAll>>

(* C16: for the events update(delta) pulls while playing: those of Auto and
   Human tracks are sent to the sink, those of Human tracks are also reported
   to the reconciler, those of Mute tracks go nowhere; all in source order
   with channel and message unchanged; every pulled event is returned. *)
C16_RoutingByPolicy ==
    (lastOp.op = "update" /\ ~pre.playback.is_paused)
    => LET sounding(e) == PlayerOf(e) \in {"Auto", "Human"}
           human(e) == PlayerOf(e) = "Human"
       IN /\ out.returned =
                PlaybackState_update(pre.playback, lastOp.delta).events
          /\ out.sent = Forwarded(SelectSeq(out.returned, sounding))
          /\ out.reported = MessagesOf(SelectSeq(out.returned, human))

\* one update pulled events of an Auto, a Human and a Mute track
C16_Witness ==
    /\ lastOp.op = "update"
    /\ ~pre.playback.is_paused
    /\ \A p \in {"Auto", "Human", "Mute"} :
          \E i \in 1..Len(out.returned) : PlayerOf(out.returned[i]) = p
    /\ Len(out.sent) < Len(out.returned)

(* C17: no event is matched twice.  The press that a file NoteOn consumed, or
   that cleared a requirement, is no longer pending, and the requirement a
   press cleared is gone; the next file NoteOn for the note, with no new
   user press, puts the note in RequiredNotes. *)
C17_NoDoubleMatch ==
    \A n \in Notes :
        /\ lastNoteOn[n] \in {"consumed", "cleared"}
           => n \notin PendingNotes(PendingUserPresses)
        /\ lastNoteOn[n] = "cleared" => n \notin RequiredNotes
        /\ (Was("File", NoteOn(n)) /\ InRange(n)
                /\ pre.lastNoteOn[n] \in {"consumed", "cleared"})
           => (n \in RequiredNotes /\ lastNoteOn[n] = "required")

\* a second file NoteOn came after the first had consumed the only press
C17_Witness ==
    \E n \in Notes :
        /\ Was("File", NoteOn(n))
        /\ pre.lastNoteOn[n] = "consumed"
        /\ n \in RequiredNotes

(* C18, as stated: RequiredNotes is changed by file-side events only. *)
C18_AsStated ==
    RequiredNotes # pre.play_along.required_notes
    => (lastOp.op = "midi_event" /\ lastOp.source = "File")

(* C18, amended: RequiredNotes grows only by a file NoteOn; it shrinks only
   by a file NoteOff, by a user NoteOn for a note that is required (which
   removes that note) and by clear(); the expiry sweep and every other user
   event leave it as it was. *)
C18_RequiredNotesWriters ==
    LET before == pre.play_along.required_notes
    IN /\ ~(RequiredNotes \subseteq before)
          => \E n \in Notes : Was("File", NoteOn(n))
       /\ RequiredNotes # before
          => \/ \E n \in Notes : Was("File", NoteOn(n)) \/ Was("File", NoteOff(n))
             \/ \E n \in before :
                    Was("User", NoteOn(n)) /\ RequiredNotes = before \ {n}
             \/ lastOp.op = "PlayAlong_clear"

\* a user NoteOn removed one of two requirements
C18_Witness ==
    \E n \in Notes :
        /\ Was("User", NoteOn(n))
        /\ n \in pre.play_along.required_notes
        /\ RequiredNotes = pre.play_along.required_notes \ {n}
        /\ RequiredNotes # {}

\* the number of entries upr holds for note n
EntriesFor(upr, n) == Cardinality({i \in 1..Len(upr) : upr[i].note_id = n})

(* C19: a user NoteOn for an in-range note n that is not required upserts the
   pending entry of n: afterwards there is exactly one entry for n, with the
   time of this press; an entry that existed keeps its place, a new one goes
   to the back, the other entries are as they were.  In every reachable state
   PendingUserPresses holds at most one entry per note. *)
C19_UpsertOnePerNote ==
    /\ \A n \in Notes : EntriesFor(PendingUserPresses, n) <= 1
    /\ \A n \in Notes :
          (Was("User", NoteOn(n)) /\ InRange(n)
              /\ n \notin pre.play_along.required_notes)
          => LET before == pre.play_along.user_pressed_recently
                 entry == [timestamp |-> now, note_id |-> n]
                 at == FirstIndex(before, n)
             IN /\ EntriesFor(PendingUserPresses, n) = 1
                /\ IF at # 0
                   THEN PendingUserPresses = [before EXCEPT ![at] = entry]
                   ELSE PendingUserPresses = Append(before, entry)

\* a press refreshed in place the older entry of its note, the first of two
C19_Witness ==
    \E n \in Notes :
        /\ Was("User", NoteOn(n))
        /\ Len(PendingUserPresses) = 2
        /\ Len(pre.play_along.user_pressed_recently) = 2
        /\ pre.play_along.user_pressed_recently[1].note_id = n
        /\ pre.play_along.user_pressed_recently[1].timestamp < now
        /\ PendingUserPresses[1] = [timestamp |-> now, note_id |-> n]

(* C20: every controller update, paused or playing, runs the expiry sweep
   before it reports any file event: after it no pending press is older than
   500 ms, and a file NoteOn of a human track for a note whose only press is
   older than 500 ms puts the note in RequiredNotes. *)
C20_SweepBeforeFileEvents ==
    lastOp.op = "update"
    => /\ \A e \in Entries(PendingUserPresses) : now - e.timestamp <= Threshold
       /\ \A n \in FileOnNotes(out.reported) :
            (/\ pre.early[n] # NoTime
             /\ now - pre.early[n] > Threshold
             /\ \A i \in 1..Len(out.reported) : out.reported[i] # NoteOff(n))
            => n \in RequiredNotes

\* the update found a press 501 ms old still pending and reported a NoteOn
\* for its note
C20_Witness ==
    /\ lastOp.op = "update"
    /\ \E n \in FileOnNotes(out.reported) :
        /\ n \in PendingNotes(pre.play_along.user_pressed_recently)
        /\ pre.early[n] # NoTime
        /\ now - pre.early[n] = Threshold + 1
        /\ n \in RequiredNotes

----------------------------------------------------------------------------
\* the range the message asks for: the bound it names moved by one
Asked(range, message) ==
    LET d == IF message.kind = "Add" THEN 1 ELSE 0 - 1
    IN IF message.variant = "RangeStart"
       THEN <<range[1] + d, range[2]>>
       ELSE <<range[1], range[2] + d>>

(* C21: under any sequence of RangeStart/RangeEnd Add/Sub messages from a
   valid range, the range keeps 0 <= start, end <= 127 and start + 24 < end;
   a message that asks for a range violating this leaves the range as it was
   (any other is applied), and no step overflows u8. *)
C21_RangeStaysValid ==
    /\ ValidRange(piano_range)
    /\ ~lastSettings.overflowed
    /\ lastSettings.message # NoSettingsMessage
       => LET asked == Asked(lastSettings.pre, lastSettings.message)
          IN piano_range = IF ValidRange(asked) THEN asked ELSE lastSettings.pre

\* RangeStart(Add) was refused at the least gap, with the end of the range at
\* the top of the keyboard
C21_Witness ==
    /\ lastSettings.message = RangeStartMessage("Add")
    /\ piano_range = lastSettings.pre
    /\ piano_range[1] + MinGap + 1 = piano_range[2]
    /\ piano_range[2] = RangeMax

====
